---- MODULE Spec2Model ----
(***************************************************************************)
(* Registry routes of oc: the render handler (exports.component) and the   *)
(* publish handler (exports.publish) of registry/routes/index.js, run as   *)
(* concurrent requests of one single-threaded process that suspend at      *)
(* every asynchronous collaborator call (repository, archive extractor,    *)
(* data-provider, template renderer).                                      *)
(***************************************************************************)
EXTENDS Integers, Sequences, FiniteSets, TLC

\* ------------------------------------------------------------------ bounds
\* number of request slots that can be in flight at the same time
MaxReq == 2
\* number of requests the process receives in one run
MaxServed == 3

\* ------------------------------------------------------------ value spaces
Reqs == 1..MaxReq

\* component names an upload can carry: "" is a missing route parameter,
\* "Bad Name" breaks the name syntax rules
ValidNames == {"widget"}
PublishNames == {"", "widget", "Bad Name"}

\* version strings: "" is a missing route parameter / "latest",
\* "abc" is not a semantic version
ValidVersions == {"1.0.0", "1.1.0"}
PublishVersions == {"", "abc", "1.0.0", "1.1.0"}
RenderVersions == {"", "1.0.0", "1.1.0"}

\* contents of an uploaded package, by identity:
\*   1: template only, no declared parameter
\*   2: template + data-provider, requires parameter "name"
\*   3: template + data-provider whose source throws while it is evaluated
Payloads == {1, 2, 3}
NoPayload == 0

\* query strings, as the set of parameter names they supply
ParamSets == {{}, {"name"}}

PrerenderedAccept == "application/vnd.oc.prerendered+json"
Accepts == {PrerenderedAccept, "text/html"}

\* ------------------------------------------- component manifest (package)
HasDataProvider(p) == p \in {2, 3}
RequiredParams(p) == IF p = 2 THEN {"name"} ELSE {}
DeclaredParams(p) == IF p = 2 THEN {"name"} ELSE {}
EvalThrows(p) == p = 3

\* ---------------------------------------------------------------- values
NoData == [src |-> -1, params |-> {}]
EmptyData == [src |-> 0, params |-> {}]
NoArtifact == [file |-> "none", src |-> 0]
NoHtml == [tpl |-> NoArtifact, data |-> NoData]
NoComponent == [version |-> "", payload |-> NoPayload]

\* ------------------------------------------------------------------ state
VARIABLES
  store,     \* repository: <<name, version>> -> payload published (0: none)
  cache,     \* nice-cache 'file-contents': <<name, version, file>> -> artifact
  local,     \* res.conf.local: development mode
  reqs,      \* the requests: position in the handler, inputs, response, calls
  crashed,   \* an exception left a callback uncaught: the process is gone
  served,    \* number of requests received so far
  scaffold   \* the call of the template initialiser of the cli

vars == <<store, cache, local, reqs, crashed, served, scaffold>>

StoreKeys == ValidNames \X ValidVersions
CacheFiles == {"server.js", "template.js"}
CacheKeys == ValidNames \X ValidVersions \X CacheFiles

IdleReq ==
  [kind |-> "none", pc |-> "idle",
   name |-> "", version |-> "", params |-> {}, accept |-> "text/html",
   pkgValid |-> TRUE, payload |-> NoPayload,
   component |-> NoComponent, sparams |-> {},
   data |-> NoData, fn |-> NoArtifact, tpl |-> NoArtifact,
   responses |-> 0, status |-> 0, error |-> "", errorDetails |-> "",
   renderMode |-> "", html |-> NoHtml, rdata |-> NoData, template |-> NoPayload,
   rversion |-> "", requestVersion |-> "",
   existed |-> FALSE, known |-> {},
   calls |-> {}, cached |-> {}, errs |-> {}]

\* the template initialiser before its call, in a process whose cli is c
IdleScaffold(c) ==
  [pc |-> "idle", cli |-> c, templateType |-> <<"", "">>, emitter |-> FALSE,
   dir |-> FALSE, spawned |-> <<>>, initError |-> FALSE, installError |-> FALSE,
   code |-> 0, copied |-> FALSE, callbacks |-> <<>>]

InitRegistry ==
  /\ store = [k \in StoreKeys |-> NoPayload]
  /\ cache = [k \in CacheKeys |-> NoArtifact]
  /\ local \in BOOLEAN
  /\ reqs = [r \in Reqs |-> IdleReq]
  /\ crashed = FALSE
  /\ served = 0

\* the registry process, which does not load the cli
Init ==
  /\ InitRegistry
  /\ scaffold = IdleScaffold("none")

\* res.json(status, body): the response of request q
Respond(q, status, error, details) ==
  [q EXCEPT !.pc = "done", !.responses = @ + 1, !.status = status,
            !.error = error, !.errorDetails = details]

\* a collaborator call made on behalf of the request
Call(q, c) == [q EXCEPT !.calls = @ \cup {c}]

\* a failure a collaborator hands to the request (an error or an exception)
Fail(q, e) == [q EXCEPT !.errs = @ \cup {e}]

\* a slot takes a new request when it is free or its last response was sent
Free(r) == reqs[r].pc \in {"idle", "done"} /\ served < MaxServed

\* =============================================================== publish
\* validator.validateVersion: the string parses as a semantic version
validateVersion(v) == v \in ValidVersions

\* validator.validatePackage: the upload has the shape of one package
validatePackage(pkgValid) == pkgValid

\* PublishStatus with an existing version answered like a fresh one
PublishStatusIdempotent(code) ==
  CASE code = "ok" -> 200
    [] code = "not_allowed" -> 403
    [] code = "already_exists" -> 200
    [] code = "name_not_valid" -> 409
    [] OTHER -> 500

\* PublishStatus without its last else branch: the error falls through
PublishStatusNoDefault(code) ==
  CASE code = "ok" -> 200
    [] code = "not_allowed" -> 403
    [] code = "already_exists" -> 403
    [] code = "name_not_valid" -> 409
    [] OTHER -> 200

\* PublishStatus with the name conflict answered like the other conflicts
PublishStatusNameForbidden(code) ==
  CASE code = "ok" -> 200
    [] code = "not_allowed" -> 403
    [] code = "already_exists" -> 403
    [] code = "name_not_valid" -> 403
    [] OTHER -> 500

\* the status of each outcome of repository.publishComponent
PublishStatus(code) ==
  CASE code = "ok" -> 200
    [] code = "not_allowed" -> 403
    [] code = "already_exists" -> 403
    [] code = "name_not_valid" -> 409
    [] OTHER -> 500

\* res.errorDetails of each failed outcome
PublishDetails(code) ==
  CASE code = "ok" -> ""
    [] code = "not_allowed" -> "Publish not allowed"
    [] code = "already_exists" -> "Component already exists"
    [] code = "name_not_valid" -> "Component name not valid"
    [] OTHER -> "Publish failed"

\* PublishValidate without the check of the uploaded package
PublishValidateNoPackageCheck(q) ==
  IF q.name = "" \/ q.version = ""
    THEN Respond(q, 409, "malformed request", "malformed request")
  ELSE IF ~validateVersion(q.version)
    THEN Respond(q, 409, "not a valid version", "not a valid version")
  ELSE Call([q EXCEPT !.pc = "extract"], "extract")

\* exports.publish up to the call of targz.extract
PublishValidate(q) ==
  IF q.name = "" \/ q.version = ""
    THEN Respond(q, 409, "malformed request", "malformed request")
  ELSE IF ~validateVersion(q.version)
    THEN Respond(q, 409, "not a valid version", "not a valid version")
  ELSE IF ~validatePackage(q.pkgValid)
    THEN Respond(q, 409, "package is not valid", "package is not valid")
  ELSE Call([q EXCEPT !.pc = "extract"], "extract")

Publish(r) ==
  /\ ~crashed
  /\ Free(r)
  /\ served' = served + 1
  /\ UNCHANGED scaffold
  /\ \E n \in PublishNames, v \in PublishVersions, ok \in BOOLEAN :
       reqs' = [reqs EXCEPT ![r] =
                  PublishValidate([IdleReq EXCEPT !.kind = "publish", !.name = n,
                                     !.version = v, !.pkgValid = ok])]
  /\ UNCHANGED <<store, cache, local, crashed>>

\* ExtractCallback that goes on to publish whatever the extraction reports
ExtractCallbackIgnoringErr(r) ==
  /\ ~crashed
  /\ reqs[r].pc = "extract"
  /\ \E err \in BOOLEAN, p \in Payloads :
       reqs' = [reqs EXCEPT ![r] =
                  Call([(IF err THEN Fail(@, "extract") ELSE @) EXCEPT
                          !.pc = "publishComponent", !.payload = p],
                       "publishComponent")]
  /\ UNCHANGED <<store, cache, local, crashed>>
  /\ UNCHANGED <<served, scaffold>>

\* ExtractCallback whose error branch answers and does not return
ExtractCallbackNoReturn(r) ==
  /\ ~crashed
  /\ reqs[r].pc = "extract"
  /\ \E err \in BOOLEAN, p \in Payloads :
       reqs' = [reqs EXCEPT ![r] =
                  LET q1 == IF err
                              THEN Respond(Fail(@, "extract"), 500,
                                           "package file is not valid",
                                           "Package file is not valid: decompression error")
                              ELSE @
                  IN Call([q1 EXCEPT !.pc = "publishComponent", !.payload = p],
                          "publishComponent")]
  /\ UNCHANGED <<store, cache, local, crashed>>
  /\ UNCHANGED <<served, scaffold>>

\* the callback of targz.extract
ExtractCallback(r) ==
  /\ ~crashed
  /\ reqs[r].pc = "extract"
  /\ \E err \in BOOLEAN, p \in Payloads :
       reqs' = [reqs EXCEPT ![r] =
                  IF err
                    THEN Respond(Fail(@, "extract"), 500, "package file is not valid",
                                 "Package file is not valid: decompression error")
                    ELSE Call([@ EXCEPT !.pc = "publishComponent", !.payload = p],
                              "publishComponent")]
  /\ UNCHANGED <<store, cache, local, crashed>>
  /\ UNCHANGED <<served, scaffold>>

\* repository.publishComponent: the outcome for (name, version)
publishComponent(st, n, v, allowed, fails) ==
  IF ~allowed THEN "not_allowed"
  ELSE IF n \notin ValidNames THEN "name_not_valid"
  ELSE IF st[<<n, v>>] # NoPayload THEN "already_exists"
  ELSE IF fails THEN "publish_failed"
  ELSE "ok"

\* the callback of repository.publishComponent
PublishCallback(r) ==
  /\ ~crashed
  /\ reqs[r].pc = "publishComponent"
  /\ \E allowed \in BOOLEAN, fails \in BOOLEAN :
       LET q == reqs[r]
           code == publishComponent(store, q.name, q.version, allowed, fails)
           ex == q.name \in ValidNames /\ store[<<q.name, q.version>>] # NoPayload
       IN /\ store' = IF code = "ok"
                        THEN [store EXCEPT ![<<q.name, q.version>>] = q.payload]
                        ELSE store
          /\ reqs' = [reqs EXCEPT ![r] =
                        Respond([q EXCEPT !.existed = ex], PublishStatus(code),
                                IF code = "ok" THEN "" ELSE code,
                                PublishDetails(code))]
  /\ UNCHANGED <<cache, local, crashed>>
  /\ UNCHANGED <<served, scaffold>>

\* ================================================================ render
\* semantic order of the version strings
VersionRank(v) == CASE v = "1.0.0" -> 1 [] v = "1.1.0" -> 2 [] OTHER -> 0

\* the versions of a name the repository holds
Available(st, n) == {w \in ValidVersions : st[<<n, w>>] # NoPayload}

\* repository.getComponent: "" resolves to the highest version, anything
\* else to the stored version of that exact string
getComponent(st, n, v) ==
  LET av == Available(st, n)
  IN IF v = ""
       THEN IF av = {} THEN NoComponent
            ELSE LET top == CHOOSE w \in av : \A x \in av : VersionRank(x) <= VersionRank(w)
                 IN [version |-> top, payload |-> st[<<n, top>>]]
       ELSE IF v \in av THEN [version |-> v, payload |-> st[<<n, v>>]]
            ELSE NoComponent

\* sanitiser.sanitiseComponentParameters: undeclared parameters are dropped
sanitiseComponentParameters(params, p) == params \cap DeclaredParams(p)

\* validator.validateComponentParameters: every required parameter is there
validateComponentParameters(params, p) == RequiredParams(p) \subseteq params

\* cacheKey that leaves the version out: every version shares one entry
cacheKeyNoVersion(name, version, file) == <<name, "1.0.0", file>>

\* format('{0}/{1}/<file>', component.name, component.version)
cacheKey(name, version, file) == <<name, version, file>>

\* Compile that reads the exported function under a key the source lacks
CompileWrongKey(file, src) == NoArtifact

\* vm.runInNewContext + extraction of the exported function
Compile(file, src) == [file |-> file, src |-> src]

\* what a compiled data-provider yields for a request object
RunProvider(fn, params) == [src |-> fn.src, params |-> params]

\* what client.renderTemplate yields for a template and its data
Html(tpl, data) == [tpl |-> tpl, data |-> data]

\* repository.getStaticFilePath + files.template.{type, hashKey}
TemplateRef(name, comp) == comp.payload

\* UseCached that forgets the development mode
UseCachedIgnoringLocal(ca, loc) == ca # NoArtifact

\* the request runs on the cached artifact: cached is truthy and not local
UseCached(ca, loc) == ca # NoArtifact /\ ~loc

\* Prerendered that compares the accept header with another media type
PrerenderedOtherType(q) == q.accept = "application/vnd.oc.rendered+json"

\* the accept header signals prerendered
Prerendered(q) == q.accept = PrerenderedAccept

\* PrerenderedResponse that leaves the data out of the body
PrerenderedResponseNoData(q, data) ==
  Respond([q EXCEPT !.template = TemplateRef(q.name, q.component),
                    !.renderMode = "pre-rendered"], 200, "", "")

\* the response of the prerendered branch: data and template references
PrerenderedResponse(q, data) ==
  Respond([q EXCEPT !.rdata = data,
                    !.template = TemplateRef(q.name, q.component),
                    !.renderMode = "pre-rendered"], 200, "", "")

\* cache.get('file-contents', key): the request remembers a truthy result
Lookup(q, c, file, cached) ==
  Call([q EXCEPT !.cached = IF cached # NoArtifact THEN @ \cup {file} ELSE @], c)

\* returnResult that answers without waiting for the renderer
returnResultNoWait(q, tpl) ==
  Respond(Call([q EXCEPT !.tpl = tpl, !.renderMode = "rendered"], "renderTemplate"),
          200, "", "")

\* returnResult: client.renderTemplate is called with the template
returnResult(q, tpl) ==
  Call([q EXCEPT !.pc = "renderTemplate", !.tpl = tpl], "renderTemplate")

\* returnComponent that goes on to the template whatever err is
returnComponentIgnoringErr(q, err, data, ca, loc) ==
  LET q1 == [q EXCEPT !.data = data, !.rversion = q.component.version,
                      !.requestVersion = q.version]
  IN IF Prerendered(q)
       THEN PrerenderedResponse(q1, data)
     ELSE
       LET cached == ca[cacheKey(q.name, q.component.version, "template.js")]
           q2 == Lookup(q1, "tplCacheRead", "template.js", cached)
       IN IF UseCached(cached, loc)
            THEN returnResult(q2, cached)
            ELSE Call([q2 EXCEPT !.pc = "getCompiledView"], "getCompiledView")

\* returnComponent(err, data), up to its next asynchronous call
returnComponent(q, err, data, ca, loc) ==
  IF err
    THEN Respond(q, 502, "component data resolving error",
                 "component data resolving error")
  ELSE
    LET q1 == [q EXCEPT !.data = data, !.rversion = q.component.version,
                        !.requestVersion = q.version]
    IN IF Prerendered(q)
         THEN PrerenderedResponse(q1, data)
       ELSE
         LET cached == ca[cacheKey(q.name, q.component.version, "template.js")]
             q2 == Lookup(q1, "tplCacheRead", "template.js", cached)
         IN IF UseCached(cached, loc)
              THEN returnResult(q2, cached)
              ELSE Call([q2 EXCEPT !.pc = "getCompiledView"], "getCompiledView")

\* an exception nobody catches: the request never gets its response
Uncaught(q) == [q EXCEPT !.pc = "uncaught"]

\* processData(reqObj, returnComponent): the provider throws or goes async
InvokeProvider(q, fn, throws) ==
  IF throws THEN Uncaught(Fail(Call(q, "processData"), "dpCallThrow"))
  ELSE Call([q EXCEPT !.pc = "processData", !.fn = fn], "processData")

\* NoProviderData when returnComponent is called without its data argument
NoProviderDataUndefined == NoData

\* the data of a component that declares no data-provider
NoProviderData == EmptyData

\* the versions of n that a publish has been answered already_exists for
Conflicted(n) ==
  {v \in ValidVersions : \E s \in Reqs :
     /\ reqs[s].kind = "publish" /\ reqs[s].pc = "done"
     /\ reqs[s].error = "already_exists"
     /\ reqs[s].name = n /\ reqs[s].version = v}

\* ParamsInvalid that takes every validation result for a valid one
ParamsInvalidNever(params, p) == FALSE

\* !result.isValid: the sanitised parameters fail the component's schema
ParamsInvalid(params, p) == ~validateComponentParameters(params, p)

\* exports.component up to the call of repository.getComponent
Component(r) ==
  /\ ~crashed
  /\ Free(r)
  /\ served' = served + 1
  /\ UNCHANGED scaffold
  /\ \E n \in ValidNames, v \in RenderVersions, ps \in ParamSets, a \in Accepts :
       reqs' = [reqs EXCEPT ![r] =
                  Call([IdleReq EXCEPT !.kind = "render", !.pc = "getComponent",
                                       !.name = n, !.version = v, !.params = ps,
                                       !.accept = a, !.known = Conflicted(n)],
                       "getComponent")]
  /\ UNCHANGED <<store, cache, local, crashed>>

\* the callback of repository.getComponent
GetComponentCallback(r) ==
  /\ ~crashed
  /\ reqs[r].pc = "getComponent"
  /\ \E throws \in BOOLEAN :
       LET q == reqs[r]
           comp == getComponent(store, q.name, q.version)
           params == sanitiseComponentParameters(q.params, comp.payload)
           key == cacheKey(q.name, comp.version, "server.js")
           q1 == [q EXCEPT !.component = comp, !.sparams = params]
           q2 == Lookup(q1, "dpCacheRead", "server.js", cache[key])
           new ==
             IF comp = NoComponent
               THEN Respond(q, 404, "not found", "not found")
             ELSE IF ParamsInvalid(params, comp.payload)
               THEN Respond(q1, 400, "invalid parameters", "invalid parameters")
             ELSE IF ~HasDataProvider(comp.payload)
               THEN returnComponent(q1, FALSE, NoProviderData, cache, local)
             ELSE IF UseCached(cache[key], local)
               THEN InvokeProvider(q2, cache[key], throws)
             ELSE Call([q2 EXCEPT !.pc = "getDataProvider"], "getDataProvider")
       IN /\ reqs' = [reqs EXCEPT ![r] = new]
          /\ crashed' = (new.pc = "uncaught")
  /\ UNCHANGED <<store, cache, local>>
  /\ UNCHANGED <<served, scaffold>>

\* the callback of repository.getDataProvider
GetDataProviderCallback(r) ==
  /\ ~crashed
  /\ reqs[r].pc = "getDataProvider"
  /\ \E err \in BOOLEAN, throws \in BOOLEAN :
       LET q == reqs[r]
           src == store[<<q.name, q.component.version>>]
           key == cacheKey(q.name, q.component.version, "server.js")
           processData == Compile("server.js", src)
       IN IF err
            THEN /\ reqs' = [reqs EXCEPT ![r] =
                               Respond(Fail(q, "getDataProvider"), 502,
                                       "component resolving error",
                                       "component resolving error")]
                 /\ UNCHANGED <<cache, crashed>>
          ELSE IF EvalThrows(src)
            THEN /\ reqs' = [reqs EXCEPT ![r] =
                               Uncaught(Fail(Call(q, "dpCompile"), "dpEvalThrow"))]
                 /\ crashed' = TRUE
                 /\ UNCHANGED cache
          ELSE /\ cache' = [cache EXCEPT ![key] = processData]
               /\ reqs' = [reqs EXCEPT ![r] =
                             InvokeProvider(Call(Call(q, "dpCompile"), "dpCacheWrite"),
                                            processData, throws)]
               /\ crashed' = throws
  /\ UNCHANGED <<store, local>>
  /\ UNCHANGED <<served, scaffold>>

\* the data-provider calls back: returnComponent(err, data)
ProcessDataCallback(r) ==
  /\ ~crashed
  /\ reqs[r].pc = "processData"
  /\ \E err \in BOOLEAN :
       LET q == reqs[r]
       IN reqs' = [reqs EXCEPT ![r] =
                     returnComponent(IF err THEN Fail(q, "dpCallbackErr") ELSE q, err,
                                     RunProvider(q.fn, q.sparams), cache, local)]
  /\ UNCHANGED <<store, cache, local, crashed>>
  /\ UNCHANGED <<served, scaffold>>

\* the callback of repository.getCompiledView
GetCompiledViewCallback(r) ==
  /\ ~crashed
  /\ reqs[r].pc = "getCompiledView"
  /\ \E err \in BOOLEAN :
       LET q == reqs[r]
           src == store[<<q.name, q.component.version>>]
           key == cacheKey(q.name, q.component.version, "template.js")
           template == Compile("template.js", src)
       IN IF err
            THEN /\ reqs' = [reqs EXCEPT ![r] = Uncaught(Fail(q, "getCompiledView"))]
                 /\ crashed' = TRUE
                 /\ UNCHANGED cache
            ELSE /\ cache' = [cache EXCEPT ![key] = template]
                 /\ reqs' = [reqs EXCEPT ![r] =
                               returnResult(Call(Call(q, "tplCompile"), "tplCacheWrite"),
                                            template)]
                 /\ UNCHANGED crashed
  /\ UNCHANGED <<store, local>>
  /\ UNCHANGED <<served, scaffold>>

\* the callback of client.renderTemplate
RenderTemplateCallback(r) ==
  /\ ~crashed
  /\ reqs[r].pc = "renderTemplate"
  /\ \E err \in BOOLEAN :
       LET q == reqs[r]
       IN reqs' = [reqs EXCEPT ![r] =
                     Respond([(IF err THEN Fail(q, "renderTemplate") ELSE q) EXCEPT
                                !.html = IF err THEN NoHtml ELSE Html(q.tpl, q.data),
                                !.renderMode = "rendered"], 200, "", "")]
  /\ UNCHANGED <<store, cache, local, crashed>>
  /\ UNCHANGED <<served, scaffold>>

\* a data-provider that was called and keeps its callback for ever
ProviderHangs(r) ==
  /\ ~crashed
  /\ reqs[r].pc = "processData"
  /\ reqs' = [reqs EXCEPT ![r] = Fail([@ EXCEPT !.pc = "hung"], "dpHang")]
  /\ UNCHANGED <<store, cache, local, crashed>>
  /\ UNCHANGED <<served, scaffold>>

Next ==
  \E r \in Reqs :
    \/ Publish(r)
    \/ ExtractCallback(r)
    \/ PublishCallback(r)
    \/ Component(r)
    \/ GetComponentCallback(r)
    \/ GetDataProviderCallback(r)
    \/ ProcessDataCallback(r)
    \/ GetCompiledViewCallback(r)
    \/ RenderTemplateCallback(r)
    \/ ProviderHangs(r)

Spec == Init /\ [][Next]_vars

\* the event loop runs every callback a collaborator has handed back; no
\* request has to arrive and no data-provider has to call back
Delivered ==
  \A r \in Reqs :
    /\ WF_vars(ExtractCallback(r))
    /\ WF_vars(PublishCallback(r))
    /\ WF_vars(GetComponentCallback(r))
    /\ WF_vars(GetDataProviderCallback(r))
    /\ WF_vars(ProcessDataCallback(r))
    /\ WF_vars(GetCompiledViewCallback(r))
    /\ WF_vars(RenderTemplateCallback(r))

SpecFair == Spec /\ Delivered

\* ======================================================= init-template.js
\* var cli = shouldUseYarn() ? 'yarn' : 'npm'
Clis == {"npm", "yarn"}

\* templateType, as <<leading "./" or "/" or "../" if any, the rest>>
TemplateTypes ==
  {<<"", "oc-template-jade">>, <<"./", "my-template">>,
   <<"/", "opt/my-template">>, <<"../", "my-template">>}

\* exit codes of the install process: success, failure, spawn failure
Codes == {0, 1, -2}

TemplateTypeNotValid == "template type not valid"
BoilerplateError == "An error happened when initialising the component"
Ok == "ok"

\* var local = /^\.\/|^\//.test(templateType)
localTemplate(t) == t[1] \in {"./", "/"}

\* path.resolve(process.cwd(), templateType)
templatePath(t) == IF t[1] = "/" THEN t ELSE <<"cwd/", t>>

\* args[cli]
args(c, t) ==
  LET target == IF localTemplate(t) THEN templatePath(t) ELSE t
  IN IF c = "npm"
       THEN <<"install", "--save", "--save-exact", target>>
       ELSE <<"add", "--exact", target>>

\* callback(result)
Callback(s, result) == [s EXCEPT !.callbacks = Append(@, result)]

\* module.exports = function (componentName, templateType, callback), up to
\* its return: the directory is made, the init process runs to its end in
\* spawn.sync, and initProc.on(...) is a TypeError when the object that
\* spawn.sync returned has no method 'on' (the result object of a finished
\* process); otherwise the install process is spawned with its listeners
InitTemplate ==
  /\ scaffold.pc = "idle"
  /\ scaffold.cli \in Clis
  /\ \E t \in TemplateTypes, emitter \in BOOLEAN :
       scaffold' =
         LET s == [scaffold EXCEPT !.templateType = t, !.dir = TRUE,
                                   !.emitter = emitter]
         IN IF ~emitter
              THEN [s EXCEPT !.pc = "thrown"]
              ELSE [s EXCEPT !.pc = "installing",
                             !.spawned = args(scaffold.cli, t)]
  /\ UNCHANGED <<store, cache, local, reqs, crashed, served>>

\* initProc.on('error', ...)
InitError ==
  /\ scaffold.pc \in {"installing", "closed"}
  /\ scaffold.emitter /\ ~scaffold.initError
  /\ scaffold' = Callback([scaffold EXCEPT !.initError = TRUE],
                          TemplateTypeNotValid)
  /\ UNCHANGED <<store, cache, local, reqs, crashed, served>>

\* installProc.on('error', ...): a process that fails to start emits
\* 'error' and then 'close'
InstallError ==
  /\ scaffold.pc = "installing"
  /\ ~scaffold.installError
  /\ scaffold' = Callback([scaffold EXCEPT !.installError = TRUE],
                          TemplateTypeNotValid)
  /\ UNCHANGED <<store, cache, local, reqs, crashed, served>>

\* installProc.on('close', ...)
InstallClose ==
  /\ scaffold.pc = "installing"
  /\ \E code \in Codes, copyThrows \in BOOLEAN :
       /\ scaffold.installError => code # 0
       /\ scaffold' =
            LET s == [scaffold EXCEPT !.pc = "closed", !.code = code]
            IN IF code # 0
                 THEN Callback(s, TemplateTypeNotValid)
               ELSE IF copyThrows
                 THEN Callback(s, BoilerplateError)
               ELSE Callback([s EXCEPT !.copied = TRUE], Ok)
  /\ UNCHANGED <<store, cache, local, reqs, crashed, served>>

\* a cli process: the module is loaded and cli is chosen
InitCli ==
  /\ InitRegistry
  /\ \E c \in Clis : scaffold = IdleScaffold(c)

NextTemplate == InitTemplate \/ InitError \/ InstallError \/ InstallClose

SpecTemplate == InitCli /\ [][NextTemplate]_vars

\* ============================================================ properties
IsPublish(q) == q.kind = "publish"
IsRender(q) == q.kind = "render"
Done(q) == q.pc = "done"

\* the request was answered from the callback of repository.publishComponent
Committing(q) == IsPublish(q) /\ Done(q) /\ "publishComponent" \in q.calls

\* what the repository holds for the version the request resolved
Stored(q) == store[<<q.name, q.component.version>>]

\* the data a request must have got for the component it resolved
ExpectedData(q) ==
  IF HasDataProvider(Stored(q))
    THEN [src |-> Stored(q), params |-> q.sparams]
    ELSE EmptyData

\* the html a request must have got for the component it resolved
ExpectedHtml(q) ==
  [tpl |-> [file |-> "template.js", src |-> Stored(q)], data |-> ExpectedData(q)]

\* C1: of the publishes of one (name, version) only the first is answered
\* 200 and the repository keeps its package; a publish that finds the pair
\* is answered 403 already_exists; a render of the pair issued after that
\* conflict is never answered 404, fails only on invalid parameters (400) or
\* on a failure of a collaborator (502), and its 200 response is built from
\* the stored package of the first publish.
C1_SecondPublishRejected ==
  \A r \in Reqs :
    LET q == reqs[r]
    IN /\ (Committing(q) /\ q.status = 200) =>
            (~q.existed /\ store[<<q.name, q.version>>] = q.payload)
       /\ (Committing(q) /\ q.existed) =>
            (q.status = 403 /\ q.error \in {"already_exists", "not_allowed"})
       /\ (Committing(q) /\ q.error = "already_exists") =>
            (q.existed /\ q.status = 403)
       /\ (IsRender(q) /\ Done(q) /\ q.version \in q.known) =>
            /\ q.status \in {200, 400, 502}
            /\ q.status = 400 => ~(RequiredParams(Stored(q)) \subseteq q.params)
            /\ q.status = 502 => q.errs # {}
            /\ q.status = 200 => q.rversion = q.version
            /\ (q.status = 200 /\ q.renderMode = "rendered" /\ q.errs = {}) =>
                  q.html = ExpectedHtml(q)
            /\ (q.status = 200 /\ q.renderMode = "pre-rendered") =>
                  (q.rdata = ExpectedData(q) /\ q.template = Stored(q))

\* C1 witness: a publish was answered already_exists and a render of the
\* same pair, issued after that answer, got its html
C1_Witness ==
  \E p \in Reqs, r \in Reqs :
    /\ IsPublish(reqs[p]) /\ Done(reqs[p]) /\ reqs[p].error = "already_exists"
    /\ IsRender(reqs[r]) /\ Done(reqs[r]) /\ reqs[r].status = 200
    /\ reqs[r].name = reqs[p].name /\ reqs[r].version = reqs[p].version
    /\ reqs[r].version \in reqs[r].known
    /\ reqs[r].renderMode = "rendered" /\ reqs[r].html # NoHtml

\* C2: every outcome of repository.publishComponent is answered with the
\* status of the taxonomy: success 200, not_allowed 403, already_exists 403,
\* name_not_valid 409, any other error 500.
C2_PublishTaxonomy ==
  \A r \in Reqs :
    LET q == reqs[r]
    IN Committing(q) =>
         /\ q.error = "" => q.status = 200
         /\ q.error = "not_allowed" => q.status = 403
         /\ q.error = "already_exists" => q.status = 403
         /\ q.error = "name_not_valid" => q.status = 409
         /\ q.error \notin {"", "not_allowed", "already_exists", "name_not_valid"} =>
              q.status = 500

\* C2 witness: a name conflict and an opaque repository failure were answered
C2_Witness ==
  \E p \in Reqs, r \in Reqs :
    /\ Committing(reqs[p]) /\ reqs[p].error = "name_not_valid"
    /\ Committing(reqs[r]) /\ reqs[r].error = "publish_failed"

TypedConflicts == {"not_allowed", "already_exists", "name_not_valid"}

\* C3 (as claimed): two publishes answered with different typed conflicts
\* never get the same status.
C3_DistinctStatuses ==
  \A p \in Reqs, r \in Reqs :
    (/\ Committing(reqs[p]) /\ Committing(reqs[r])
     /\ reqs[p].error \in TypedConflicts /\ reqs[r].error \in TypedConflicts
     /\ reqs[p].error # reqs[r].error)
    => reqs[p].status # reqs[r].status

\* C3 (amended): name_not_valid has a status of its own (409), while
\* not_allowed and already_exists share one status (403): two different
\* typed conflicts get the same status exactly when neither is name_not_valid.
C3_NameConflictDistinct ==
  \A p \in Reqs, r \in Reqs :
    (/\ Committing(reqs[p]) /\ Committing(reqs[r])
     /\ reqs[p].error \in TypedConflicts /\ reqs[r].error \in TypedConflicts
     /\ reqs[p].error # reqs[r].error)
    => (reqs[p].status = reqs[r].status
          <=> "name_not_valid" \notin {reqs[p].error, reqs[r].error})

\* C3 witness: a name conflict was answered next to an authorization conflict
C3_Witness ==
  \E p \in Reqs, r \in Reqs :
    /\ Committing(reqs[p]) /\ reqs[p].error = "name_not_valid"
    /\ Committing(reqs[r]) /\ reqs[r].error = "not_allowed"

\* the request fails the validation of the publish route
InvalidPublish(q) ==
  \/ q.name = ""
  \/ q.version = ""
  \/ q.version \notin {"1.0.0", "1.1.0"}
  \/ ~q.pkgValid

\* C4: a publish request that fails validation is answered 409 and neither
\* the archive extraction nor repository.publishComponent is called for it.
C4_InvalidPublishRejected ==
  \A r \in Reqs :
    LET q == reqs[r]
    IN (IsPublish(q) /\ InvalidPublish(q)) =>
         /\ Done(q) /\ q.status = 409 /\ q.responses = 1
         /\ "extract" \notin q.calls
         /\ "publishComponent" \notin q.calls
         /\ q.payload = NoPayload

\* C4 witness: an upload with a valid name and version but an invalid package
C4_Witness ==
  \E r \in Reqs :
    /\ IsPublish(reqs[r]) /\ Done(reqs[r])
    /\ reqs[r].name = "widget" /\ reqs[r].version = "1.0.0" /\ ~reqs[r].pkgValid
    /\ reqs[r].status = 409

\* C5: repository.publishComponent is called only for a request that passed
\* validation and whose extraction completed without error; a request whose
\* extraction failed is answered 500 with the decompression error and
\* repository.publishComponent is never called for it.
C5_PublishOrder ==
  \A r \in Reqs :
    LET q == reqs[r]
    IN /\ (IsPublish(q) /\ "publishComponent" \in q.calls) =>
            (~InvalidPublish(q) /\ "extract" \in q.calls /\ "extract" \notin q.errs)
       /\ (IsPublish(q) /\ "extract" \in q.errs) =>
            /\ Done(q) /\ q.status = 500
            /\ q.error = "package file is not valid"
            /\ q.errorDetails = "Package file is not valid: decompression error"
            /\ "publishComponent" \notin q.calls
       /\ (IsPublish(q) /\ q.pc = "publishComponent") => q.payload # NoPayload
       /\ (IsPublish(q) /\ q.status = 200) => "publishComponent" \in q.calls

\* C5 witness: one extraction failed and one publish was committed
C5_Witness ==
  \E p \in Reqs, r \in Reqs :
    /\ IsPublish(reqs[p]) /\ "extract" \in reqs[p].errs /\ reqs[p].status = 500
    /\ IsPublish(reqs[r]) /\ reqs[r].status = 200

DataCalls == {"dpCacheRead", "getDataProvider", "dpCompile", "dpCacheWrite", "processData"}
TemplateCalls ==
  {"tplCacheRead", "getCompiledView", "tplCompile", "tplCacheWrite", "renderTemplate"}

\* the cache keys of the component the request resolved
DataKey(q) == <<q.name, q.component.version, "server.js">>
TemplateKey(q) == <<q.name, q.component.version, "template.js">>

\* C6: in production mode a request that finds the artifact of its key in
\* the cache runs on it and neither fetches nor compiles nor stores it, for
\* the data-provider and for the template, and an artifact once stored stays
\* in the cache; in development mode every request that reaches the lookup
\* fetches the source whatever the cache holds, and every fetched source is
\* compiled and stored over the entry.
C6_CacheModes ==
  \A r \in Reqs :
    LET q == reqs[r]
    IN IsRender(q) =>
         /\ (~local /\ "server.js" \in q.cached) =>
              /\ {"getDataProvider", "dpCompile", "dpCacheWrite"} \cap q.calls = {}
              /\ "processData" \in q.calls
              /\ q.pc = "processData" => q.fn = [file |-> "server.js", src |-> Stored(q)]
         /\ (~local /\ "template.js" \in q.cached) =>
              /\ {"getCompiledView", "tplCompile", "tplCacheWrite"} \cap q.calls = {}
              /\ "renderTemplate" \in q.calls
              /\ q.tpl = [file |-> "template.js", src |-> Stored(q)]
         /\ "dpCacheWrite" \in q.calls =>
              cache[DataKey(q)] = [file |-> "server.js", src |-> Stored(q)]
         /\ "tplCacheWrite" \in q.calls =>
              cache[TemplateKey(q)] = [file |-> "template.js", src |-> Stored(q)]
         /\ (("dpCacheRead" \in q.calls) /\ (local \/ "server.js" \notin q.cached)) =>
              /\ "getDataProvider" \in q.calls
              /\ (q.pc # "getDataProvider" /\ "getDataProvider" \notin q.errs) =>
                   "dpCompile" \in q.calls
              /\ (q.pc # "getDataProvider" /\ q.errs \cap {"getDataProvider", "dpEvalThrow"} = {}) =>
                   "dpCacheWrite" \in q.calls
         /\ (("tplCacheRead" \in q.calls) /\ (local \/ "template.js" \notin q.cached)) =>
              /\ "getCompiledView" \in q.calls
              /\ (q.pc # "getCompiledView" /\ "getCompiledView" \notin q.errs) =>
                   {"tplCompile", "tplCacheWrite"} \subseteq q.calls

\* C6 witness: in production mode a request was answered from both cached
\* artifacts of its component
C6_Witness ==
  /\ ~local
  /\ \E r \in Reqs :
       /\ IsRender(reqs[r]) /\ Done(reqs[r]) /\ reqs[r].status = 200
       /\ reqs[r].cached = {"server.js", "template.js"}
       /\ reqs[r].html # NoHtml

\* C7 (as claimed): a request whose accept header signals prerendered never
\* looks up, fetches, compiles or invokes the data-provider.
C7_PrerenderedSkipsData ==
  \A r \in Reqs :
    (IsRender(reqs[r]) /\ reqs[r].accept = PrerenderedAccept) =>
      DataCalls \cap reqs[r].calls = {}

\* C7 (amended): a request whose accept header signals prerendered skips the
\* template only: the data-provider of a component that declares one is
\* looked up and invoked as for any other request and its result is the data
\* of the pre-rendered response; the data path is skipped only when the
\* component declares no data-provider, and the data is then the empty object.
C7_PrerenderedRunsData ==
  \A r \in Reqs :
    LET q == reqs[r]
    IN (IsRender(q) /\ q.accept = PrerenderedAccept /\ Done(q) /\ q.status = 200) =>
         /\ q.renderMode = "pre-rendered"
         /\ HasDataProvider(Stored(q)) <=> "processData" \in q.calls
         /\ HasDataProvider(Stored(q)) <=> "dpCacheRead" \in q.calls
         /\ q.rdata = ExpectedData(q)
         /\ TemplateCalls \cap q.calls = {}

\* C7 witness: a pre-rendered response carries the result of the data-provider
C7_Witness ==
  \E r \in Reqs :
    /\ IsRender(reqs[r]) /\ reqs[r].accept = PrerenderedAccept
    /\ Done(reqs[r]) /\ reqs[r].status = 200
    /\ "processData" \in reqs[r].calls
    /\ reqs[r].rdata = [src |-> 2, params |-> {"name"}]

\* C8: no step of a request whose accept header signals prerendered reads the
\* template cache, fetches or runs the compiled view or calls the renderer,
\* and no such step changes a template entry of the cache.
C8_PrerenderedNoTemplate ==
  [][\A r \in Reqs :
       (reqs'[r] # reqs[r] /\ IsRender(reqs'[r]) /\ reqs'[r].accept = PrerenderedAccept) =>
         /\ TemplateCalls \cap reqs'[r].calls = {}
         /\ reqs'[r].tpl = NoArtifact /\ reqs'[r].html = NoHtml
         /\ reqs'[r].pc \notin {"getCompiledView", "renderTemplate"}
         /\ \A k \in CacheKeys : k[3] = "template.js" => cache'[k] = cache[k]]_vars

\* C8 witness: a pre-rendered response was sent while the cache held the
\* template of the component, in production mode
C8_Witness ==
  /\ ~local
  /\ \E r \in Reqs :
       /\ IsRender(reqs[r]) /\ reqs[r].accept = PrerenderedAccept
       /\ Done(reqs[r]) /\ reqs[r].status = 200
       /\ cache[TemplateKey(reqs[r])] # NoArtifact

\* C9: a request for a component that declares no data-provider makes no
\* call of the data path (no lookup, fetch, compile, store or invocation),
\* goes on with the empty object as its data, and the cache never holds a
\* data-provider for such a component.
C9_NoProviderEmptyData ==
  /\ \A r \in Reqs :
       LET q == reqs[r]
       IN (IsRender(q) /\ q.component # NoComponent /\ ~HasDataProvider(Stored(q))) =>
            /\ DataCalls \cap q.calls = {}
            /\ "server.js" \notin q.cached /\ q.fn = NoArtifact
            /\ (q.pc \in {"getCompiledView", "renderTemplate"}
                  \/ (Done(q) /\ q.status = 200)) => q.data = EmptyData
            /\ (Done(q) /\ q.status = 200 /\ q.renderMode = "pre-rendered") =>
                 q.rdata = EmptyData
            /\ (Done(q) /\ q.renderMode = "rendered" /\ q.html # NoHtml) =>
                 q.html.data = EmptyData
  /\ \A k \in StoreKeys :
       ~HasDataProvider(store[k]) => cache[<<k[1], k[2], "server.js">>] = NoArtifact

\* C9 witness: a component without data-provider was rendered to html
C9_Witness ==
  \E r \in Reqs :
    /\ IsRender(reqs[r]) /\ Done(reqs[r]) /\ reqs[r].status = 200
    /\ Stored(reqs[r]) = 1
    /\ reqs[r].renderMode = "rendered" /\ reqs[r].html # NoHtml

ProviderThrows == {"dpEvalThrow", "dpCallThrow", "dpCallbackErr"}

\* C10 (as claimed): a request whose data-provider threw, while its source
\* was evaluated, when it was called or through its callback, is answered
\* with an error response and the process goes on.
C10_ProviderThrowAnswered ==
  \A r \in Reqs :
    (IsRender(reqs[r]) /\ reqs[r].errs \cap ProviderThrows # {}) =>
      /\ Done(reqs[r]) /\ reqs[r].status >= 500
      /\ ~crashed

\* C11 (as claimed): a request whose data-provider never calls back is
\* answered in the end, as long as the process lives.
C11_HungProviderAnswered ==
  \A r \in Reqs :
    [](reqs[r].pc = "hung" => <>(reqs[r].pc = "done" \/ crashed))

TemplateFailures == {"getCompiledView", "renderTemplate"}

\* C12 (as claimed): a request whose compiled view could not be fetched or
\* whose template failed to render is answered 502: it never gets a 200
\* response and never takes the process down.
C12_TemplateFailure502 ==
  \A r \in Reqs :
    (IsRender(reqs[r]) /\ reqs[r].errs \cap TemplateFailures # {}) =>
      /\ reqs[r].pc # "uncaught"
      /\ Done(reqs[r]) => reqs[r].status = 502

\* the parameters of the request fail the schema of the component it resolved
InvalidParamsIn(q, st) ==
  /\ q.component # NoComponent
  /\ \E p \in RequiredParams(st[<<q.name, q.component.version>>]) : p \notin q.params

InvalidParams(q) == InvalidParamsIn(q, store)

\* C13: the step that finds the parameters of a request invalid answers it
\* with 400 and the validation message, having called nothing but the
\* component lookup, and leaves the cache as it was.
C13_InvalidParams400 ==
  [][\A r \in Reqs :
       (reqs'[r] # reqs[r] /\ IsRender(reqs'[r]) /\ InvalidParamsIn(reqs'[r], store')) =>
         /\ Done(reqs'[r]) /\ reqs'[r].status = 400
         /\ reqs'[r].error = "invalid parameters" /\ reqs'[r].responses = 1
         /\ reqs'[r].calls = {"getComponent"} /\ reqs'[r].cached = {}
         /\ cache' = cache /\ store' = store]_vars

\* C13 witness: a request without the required parameter was answered 400
\* while the cache held artifacts of its component
C13_Witness ==
  \E r \in Reqs :
    /\ IsRender(reqs[r]) /\ InvalidParams(reqs[r])
    /\ Done(reqs[r]) /\ reqs[r].status = 400
    /\ cache[DataKey(reqs[r])] # NoArtifact
    /\ cache[TemplateKey(reqs[r])] # NoArtifact

\* C14 (as claimed): a 200 render response is pre-rendered, with data and
\* template references and no html, exactly when the accept header signals
\* prerendered, and is otherwise rendered, with html and neither data nor
\* template; its version is the resolved version and its requestVersion the
\* version string of the request.
C14_RenderModePayload ==
  \A r \in Reqs :
    LET q == reqs[r]
    IN (IsRender(q) /\ Done(q) /\ q.status = 200) =>
         /\ q.renderMode \in {"pre-rendered", "rendered"}
         /\ q.renderMode = "pre-rendered" <=> q.accept = PrerenderedAccept
         /\ q.renderMode = "pre-rendered" =>
              (q.rdata # NoData /\ q.template # NoPayload /\ q.html = NoHtml)
         /\ q.renderMode = "rendered" =>
              (q.html # NoHtml /\ q.rdata = NoData /\ q.template = NoPayload)
         /\ q.rversion = q.component.version
         /\ q.requestVersion = q.version

\* C15: in production mode every entry of the cache is the artifact compiled
\* from the source the repository holds for the (name, version) of its key,
\* whatever publishes and renders have run and however they interleaved.
C15_CacheNeverStale ==
  ~local =>
    \A k \in CacheKeys :
      cache[k] # NoArtifact =>
        /\ store[<<k[1], k[2]>>] # NoPayload
        /\ cache[k] = Compile(k[3], store[<<k[1], k[2]>>])

\* C15 witness: in production mode the cache holds an artifact of a version
\* that a later publish tried to replace and was answered already_exists
C15_Witness ==
  /\ ~local
  /\ \E k \in CacheKeys, p \in Reqs :
       /\ cache[k] # NoArtifact
       /\ IsPublish(reqs[p]) /\ Done(reqs[p]) /\ reqs[p].error = "already_exists"
       /\ reqs[p].name = k[1] /\ reqs[p].version = k[2]
       /\ reqs[p].payload # store[<<k[1], k[2]>>]

\* the renderer has called back for the request
Rendered(q) == q.html # NoHtml \/ "renderTemplate" \in q.errs

\* C16: the steps of a render request follow each other: the template is
\* looked up only when the data is there (the data-provider has called back,
\* or the component has none), the renderer is called only with a template
\* that was looked up or fetched and compiled before, and a rendered response
\* is sent only when the renderer has called back.
C16_StepsSequential ==
  \A r \in Reqs :
    LET q == reqs[r]
    IN IsRender(q) =>
         /\ "tplCacheRead" \in q.calls =>
              /\ q.data # NoData
              /\ HasDataProvider(Stored(q)) =>
                   ("processData" \in q.calls /\ q.fn # NoArtifact
                      /\ q.data = RunProvider(q.fn, q.sparams))
         /\ q.pc \in {"getDataProvider", "processData", "hung"} =>
              (q.data = NoData /\ TemplateCalls \cap q.calls = {})
         /\ "renderTemplate" \in q.calls =>
              /\ "tplCacheRead" \in q.calls /\ q.tpl # NoArtifact
              /\ "template.js" \in q.cached \/ "tplCompile" \in q.calls
         /\ q.pc \in {"getCompiledView", "renderTemplate"} =>
              (q.responses = 0 /\ ~Rendered(q))
         /\ (Done(q) /\ q.renderMode = "rendered") =>
              ("renderTemplate" \in q.calls /\ Rendered(q))

\* C16 witness: a request ran its data-provider, fetched its template and
\* was answered with the html
C16_Witness ==
  \E r \in Reqs :
    /\ IsRender(reqs[r]) /\ Done(reqs[r]) /\ reqs[r].status = 200
    /\ {"processData", "getCompiledView", "renderTemplate"} \subseteq reqs[r].calls
    /\ reqs[r].html = ExpectedHtml(reqs[r])

DataFailures == {"getDataProvider", "dpCallbackErr"}

\* C17: the step in which the data of a request fails, by an error of the
\* source fetch or by an error the data-provider calls back with, answers
\* the request with 502; the request never reads, fetches, compiles or
\* renders the template, and a failed source fetch compiles nothing and
\* leaves the cache as it was.
C17_DataFailure502 ==
  [][\A r \in Reqs :
       (reqs'[r] # reqs[r] /\ IsRender(reqs'[r])
          /\ reqs'[r].errs \cap DataFailures # {}) =>
         /\ Done(reqs'[r]) /\ reqs'[r].status = 502 /\ reqs'[r].responses = 1
         /\ TemplateCalls \cap reqs'[r].calls = {}
         /\ reqs'[r].tpl = NoArtifact /\ reqs'[r].html = NoHtml
         /\ "getDataProvider" \in reqs'[r].errs =>
              /\ {"dpCompile", "dpCacheWrite", "processData"} \cap reqs'[r].calls = {}
              /\ cache' = cache]_vars

\* C17 witness: one request failed on the source fetch, another on the
\* error its data-provider called back with
C17_Witness ==
  \E p \in Reqs, r \in Reqs :
    /\ "getDataProvider" \in reqs[p].errs /\ reqs[p].status = 502
    /\ "dpCallbackErr" \in reqs[r].errs /\ reqs[r].status = 502

\* both requests missed the cache for file, compiled and stored the artifact
BothCompiled(p, r, c) ==
  /\ p # r /\ IsRender(reqs[p]) /\ IsRender(reqs[r])
  /\ reqs[p].name = reqs[r].name
  /\ reqs[p].component # NoComponent
  /\ reqs[p].component.version = reqs[r].component.version
  /\ c \in reqs[p].calls /\ c \in reqs[r].calls
  /\ reqs[p].cached = {} /\ reqs[r].cached = {}

\* C18: when two requests for one (name, version) both missed the cache,
\* both compiled and both stored, the cache holds the artifact a single
\* request would have stored, and each request that is answered without a
\* failure of a collaborator gets the response of its own parameters.
C18_CacheRaceSafe ==
  \A p \in Reqs, r \in Reqs :
    /\ BothCompiled(p, r, "dpCacheWrite") =>
         cache[DataKey(reqs[p])] = [file |-> "server.js", src |-> Stored(reqs[p])]
    /\ BothCompiled(p, r, "tplCacheWrite") =>
         /\ cache[TemplateKey(reqs[p])] = [file |-> "template.js", src |-> Stored(reqs[p])]
         /\ (Done(reqs[p]) /\ reqs[p].errs = {}) =>
              (reqs[p].status = 200 /\ reqs[p].html = ExpectedHtml(reqs[p]))

\* C18 witness: in production mode two requests both missed, compiled and
\* stored the data-provider and the template of one version and both got
\* their html
C18_Witness ==
  /\ ~local
  /\ \E p \in Reqs, r \in Reqs :
       /\ BothCompiled(p, r, "dpCacheWrite") /\ BothCompiled(p, r, "tplCacheWrite")
       /\ Done(reqs[p]) /\ Done(reqs[r])
       /\ reqs[p].status = 200 /\ reqs[r].status = 200
       /\ reqs[p].html # NoHtml /\ reqs[r].html # NoHtml

\* C19: no request is answered twice, on any path of the two handlers, and
\* a request that is done was answered once.
C19_AtMostOneResponse ==
  \A r \in Reqs :
    /\ reqs[r].responses <= 1
    /\ Done(reqs[r]) <=> reqs[r].responses = 1
    /\ reqs[r].status # 0 <=> reqs[r].responses = 1

\* C19 witness: a publish that went through extraction and the repository
\* and a render that went through data, template and renderer were answered
C19_Witness ==
  \E p \in Reqs, r \in Reqs :
    /\ Committing(reqs[p]) /\ reqs[p].responses = 1
    /\ IsRender(reqs[r]) /\ Done(reqs[r]) /\ reqs[r].responses = 1
    /\ {"processData", "getCompiledView", "renderTemplate"} \subseteq reqs[r].calls

\* the call of the initialiser is over: it threw, or the install closed
ScaffoldOver == scaffold.pc \in {"thrown", "closed"}

\* C20: the template initialiser calls its callback once per call, with an
\* error or with ok, whatever the init process and the install process do:
\* never twice, once when the call is over, and with ok only when the install
\* closed with code 0 and the boilerplate was copied.
C20_CallbackExactlyOnce ==
  /\ Len(scaffold.callbacks) <= 1
  /\ ScaffoldOver => Len(scaffold.callbacks) = 1
  /\ \A i \in 1..Len(scaffold.callbacks) :
       scaffold.callbacks[i] = Ok =>
         (scaffold.pc = "closed" /\ scaffold.code = 0 /\ scaffold.copied)

====
